---- MODULE Spec2Model ----
(***************************************************************************)
(* Model of the conversational triage orchestrator of triage-carebot:      *)
(* the /api/chat handler of main.py with its session store, and the reply  *)
(* shaping of doctor_agent.py.                                             *)
(*                                                                         *)
(* Text is a sequence of string chunks.  The reply shaper works on text    *)
(* whose chunks are single characters; the fixed literals of the program   *)
(* (fallback replies, patient messages) are texts of one chunk.  The empty *)
(* text is << >>.  String literals of the source that hold emoji or a long *)
(* dash are written here without them (the module is ASCII).               *)
(***************************************************************************)
EXTENDS Integers, Sequences, FiniteSets, TLC

\* ------------------------------------------------------------ bounds
\* Number of turn requests (each runs the handler once).
NumReqs == 2
\* Largest value of int(time.time()) the model reaches, counted from 0.
MaxClock == 1
\* Largest number of pieces a raw reply is assembled from (shaper runs).
MaxPieces == 5

Reqs == 1..NumReqs

\* ------------------------------------------------ doctor_agent.py: shaper
max_sentences == 4

END_CONVO == <<"<", "E", "N", "D", "_", "C", "O", "N", "V", "O", ">">>

\* What str.strip() removes.
Whitespace == {" ", "\t", "\n", "\r"}

\* The characters of the look-behind [.!?] of the sentence split.
Terminal == {".", "!", "?"}

Min(a, b) == IF a < b THEN a ELSE b

RECURSIVE LStrip(_)
LStrip(s) == IF s # <<>> /\ Head(s) \in Whitespace THEN LStrip(Tail(s)) ELSE s

RECURSIVE RStrip(_)
RStrip(s) ==
    IF s # <<>> /\ s[Len(s)] \in Whitespace
    THEN RStrip(SubSeq(s, 1, Len(s) - 1))
    ELSE s

strip(s) == RStrip(LStrip(s))

\* First index >= i of s that holds no space (Len(s) + 1 when there is none).
RECURSIVE SkipSpaces(_, _)
SkipSpaces(s, i) ==
    IF i <= Len(s) /\ s[i] = " " THEN SkipSpaces(s, i + 1) ELSE i

\* re.split(r'(?<=[.!?]) +', s): s is cut at every run of spaces that follows
\* a terminal character; i scans, start is where the current piece began.
RECURSIVE re_split_from(_, _, _)
re_split_from(s, i, start) ==
    IF i > Len(s)
    THEN <<SubSeq(s, start, Len(s))>>
    ELSE IF s[i] = " " /\ i > 1 /\ s[i - 1] \in Terminal
         THEN LET j == SkipSpaces(s, i)
              IN  <<SubSeq(s, start, i - 1)>> \o re_split_from(s, j, j)
         ELSE re_split_from(s, i + 1, start)

re_split(s) == re_split_from(s, 1, 1)

\* sep.join(parts)
RECURSIVE join(_, _)
join(sep, parts) ==
    IF parts = <<>> THEN <<>>
    ELSE IF Len(parts) = 1 THEN parts[1]
    ELSE parts[1] \o sep \o join(sep, Tail(parts))

_shorten_reply(text) ==
    IF text = <<>>
    THEN <<>>
    ELSE LET sentences == re_split(strip(text))
         IN  join(<<" ">>, SubSeq(sentences, 1, Min(Len(sentences), max_sentences)))

\* marker in s
Contains(s, m) ==
    \E i \in 1..(Len(s) - Len(m) + 1) : SubSeq(s, i, i + Len(m) - 1) = m

\* s.replace(m, ""): one pass from the left over non-overlapping occurrences.
RECURSIVE replace(_, _)
replace(s, m) ==
    IF Len(s) < Len(m) THEN s
    ELSE IF SubSeq(s, 1, Len(m)) = m
         THEN replace(SubSeq(s, Len(m) + 1, Len(s)), m)
         ELSE <<Head(s)>> \o replace(Tail(s), m)

\* doctor_reply, lines 82-88: the shaping of a non-empty raw reply.
DetectEnd(raw) == Contains(_shorten_reply(raw), END_CONVO)

ShapeReply(raw) ==
    [reply |-> strip(replace(_shorten_reply(raw), END_CONVO)),
     end_convo |-> DetectEnd(raw)]

\* ------------------------------------------- doctor_agent.py: doctor_reply
SYSTEM_PROMPT == <<"You are a compassionate general practice physician. ...">>

\* The replies doctor_reply returns without shaping.
EMPTY_REPLY ==
    <<"I'm sorry, I didn't receive a proper response. Could you rephrase your question?">>

MEMORY_REPLY ==
    <<"Mistral requires more RAM. Close other applications and try again.">>

MODEL_ERROR_REPLY == <<"The AI model encountered an error. Please try again.">>

TROUBLE_REPLY == <<"I'm having trouble processing your request. Please try again.">>

\* The reply chat substitutes when run_in_threadpool(doctor_reply, ...) raises.
CHAT_FALLBACK_REPLY ==
    <<"I'm here to help with your health concerns. Can you tell me more about your symptoms?">>

\* build_messages: the system prompt, then every turn with non-empty content
\* under its normalised role; a turn with empty content is skipped.
RECURSIVE build_turns(_)
build_turns(message_history) ==
    IF message_history = <<>> THEN <<>>
    ELSE LET m == Head(message_history)
             rest == build_turns(Tail(message_history))
         IN  IF m.content = <<>> THEN rest
             ELSE IF m.role \in {"user", "patient"}
                  THEN <<[role |-> "user", content |-> m.content]>> \o rest
             ELSE IF m.role \in {"assistant", "doctor"}
                  THEN <<[role |-> "assistant", content |-> m.content]>> \o rest
             ELSE rest

build_messages(message_history) ==
    <<[role |-> "system", content |-> SYSTEM_PROMPT]>> \o build_turns(message_history)

\* What ollama.chat does on one call: it returns content (possibly empty),
\* raises ollama.ResponseError (whose text may name "system memory"), or
\* raises another exception.
RawReplies ==
    { <<"O", "k", ".">>,
      <<"R", "e", "s", "t", ".", " ">> \o END_CONVO }

BackendOutcomes ==
    [kind : {"content"}, raw : RawReplies \cup {<<>>}, memory : {FALSE}]
    \cup [kind : {"ResponseError"}, raw : {<<>>}, memory : BOOLEAN]
    \cup [kind : {"Exception"}, raw : {<<>>}, memory : {FALSE}]

\* How the inference call failed, if it did: it raised, or returned empty
\* text.  {} when it answered.
InferenceFailure(o) ==
    IF o.kind = "content"
    THEN IF o.raw = <<>> THEN {"inference", "empty"} ELSE {}
    ELSE IF o.kind = "ResponseError"
         THEN IF o.memory THEN {"inference", "memory"} ELSE {"inference", "response_error"}
         ELSE {"inference", "exception"}

\* doctor_reply with a slip: the empty-content branch reports completion.
doctor_reply_flagged(o) ==
    IF o.kind = "content"
    THEN IF o.raw = <<>>
         THEN [reply |-> EMPTY_REPLY, end_convo |-> TRUE]
         ELSE ShapeReply(o.raw)
    ELSE IF o.kind = "ResponseError"
         THEN IF o.memory
              THEN [reply |-> MEMORY_REPLY, end_convo |-> FALSE]
              ELSE [reply |-> MODEL_ERROR_REPLY, end_convo |-> FALSE]
         ELSE [reply |-> TROUBLE_REPLY, end_convo |-> FALSE]

\* doctor_reply, lines 74-101: the (reply, end_convo) pair for an outcome.
doctor_reply(o) ==
    IF o.kind = "content"
    THEN IF o.raw = <<>>
         THEN [reply |-> EMPTY_REPLY, end_convo |-> FALSE]
         ELSE ShapeReply(o.raw)
    ELSE IF o.kind = "ResponseError"
         THEN IF o.memory
              THEN [reply |-> MEMORY_REPLY, end_convo |-> FALSE]
              ELSE [reply |-> MODEL_ERROR_REPLY, end_convo |-> FALSE]
         ELSE [reply |-> TROUBLE_REPLY, end_convo |-> FALSE]

\* ------------------------------------------------- main.py: triage display
Levels == {"Emergency", "Urgent", "Routine", "Normal"}

DEFAULT_REASON == "No red flags found; symptoms appear non-urgent."

\* The dictionary literal of lines 227-232.
triage_display ==
    [l \in Levels |->
        CASE l = "Emergency" ->
               [color |-> "#e63946", status |-> "Emergency - Immediate care required!"]
          [] l = "Urgent" ->
               [color |-> "#ff8800", status |-> "Urgent - Needs prompt medical attention."]
          [] l = "Routine" ->
               [color |-> "#2a9d8f",
                status |-> "Routine - No red flags; symptoms appear non-urgent."]
          [] l = "Normal" ->
               [color |-> "#2a9d8f", status |-> "Normal - Stable, no emergency detected."]]

\* dict.get(key, default)
Get(d, key, default) == IF key \in DOMAIN d THEN d[key] ELSE default

\* DisplayColor with a slip: every level is shown in the color of Routine.
DisplayColorRoutine(level) == "#2a9d8f"

\* triage_display.get(level, {}).get("color", "#2a9d8f")
DisplayColor(level) ==
    IF level \in DOMAIN triage_display THEN triage_display[level].color ELSE "#2a9d8f"

\* triage_display.get(level, {}).get("status", ...)
DisplayStatus(level) ==
    IF level \in DOMAIN triage_display
    THEN triage_display[level].status
    ELSE "Routine condition"

\* Lines 225-240: the triage part of the response.
TriageInfo(verified, severity_flag) ==
    LET level == Get(verified, "level", "Routine")
        reason == Get(verified, "reason", DEFAULT_REASON)
    IN  [level |-> level,
         reason |-> reason,
         color |-> DisplayColor(level),
         status |-> DisplayStatus(level),
         severity_flag |-> severity_flag]

\* Lines 219-220: the verdict substituted when evaluate_triage raises.
FALLBACK_TRIAGE == [level |-> "Routine", reason |-> DEFAULT_REASON]

\* ------------------------------- collaborators that are not under src/
\* A structured record is a set of <<field, value>> pairs; {} is the empty
\* mapping.
Records ==
    { {},
      {<<"red_flags", "chest pain">>},
      {<<"severity", "severe">>} }

HasField(record, f) == \E p \in record : p[1] = f

\* triage_engine.evaluate_triage: urgency-descending rules, Routine by default.
evaluate_triage(record) ==
    IF HasField(record, "red_flags")
    THEN [level |-> "Emergency", reason |-> "Red-flag symptoms reported."]
    ELSE IF HasField(record, "severity")
         THEN [level |-> "Urgent", reason |-> "Severe symptoms reported."]
         ELSE [level |-> "Routine", reason |-> DEFAULT_REASON]

Urgency(level) ==
    CASE level = "Emergency" -> 3
      [] level = "Urgent" -> 2
      [] OTHER -> 1

\* guideline_verifier.verify: a rule that fires may raise the level, never
\* lower it; with no rule the verdict passes through.
RECURSIVE verify(_, _)
verify(verdict, rules) ==
    IF rules = <<>> THEN verdict
    ELSE LET rule == Head(rules)
             next == IF Urgency(rule.level) > Urgency(Get(verdict, "level", "Routine"))
                     THEN rule
                     ELSE verdict
         IN  verify(next, Tail(rules))

\* Verdicts outside the evaluator's contract (an unknown level, a missing
\* key, an empty reason), and one inside it.
DriftVerdicts ==
    { [level |-> "Critical", reason |-> "Escalate."],
      [reason |-> "No level given."],
      [level |-> "Urgent", reason |-> ""],
      [level |-> "Normal", reason |-> "Stable."] }

\* ------------------------------------------------------ main.py: state
VARIABLES
    now,            \* int(time.time())
    SESSIONS,       \* session id -> list of turns (line 40)
    message_logs,   \* the process-wide log of line 41
    pc,             \* per request: where its handler stands
    sid,            \* per request: the local sid of line 182
    reply,          \* per request: the local reply (kept once the handler is done)
    severity_flag,  \* per request: the local severity_flag
    structured,     \* per request: the local structured
    history,        \* per request: the messages handed to ollama.chat
    conv_text,      \* per request: the transcript of line 210
    failed,         \* per request: the stages that failed, and how the
                    \* inference failed (history variable)
    omitted,        \* the requests that came without a session id (history variable)
    out,            \* what the step just taken gave a caller (history variable)
    raw,            \* shaper runs: the raw reply
    shaped          \* shaper runs: the result of shaping raw

vars ==
    <<now, SESSIONS, message_logs, pc, sid, reply, severity_flag, structured,
      history, conv_text, failed, omitted, out, raw, shaped>>

\* req.session_id when the request gives none.
None == <<>>

ClientSids == {<<"A">>}

\* The patient messages of the requests; the empty message is one of them.
Messages == {<<>>, <<"I have chest pain">>}

NoSid == <<"-">>

NoOut ==
    [kind |-> "none", req |-> 0, sid |-> NoSid, failed |-> {},
     raw_triage |-> FALLBACK_TRIAGE, verified |-> FALLBACK_TRIAGE, response |-> <<>>]

\* Line 182: sid = req.session_id or f"session-{int(time.time())}".
ResolveSid(session_id, t) ==
    IF session_id = None THEN <<"session-", t>> ELSE session_id

\* StoreKey with a slip: every request writes to one list.
StoreKeyShared(s) == <<"A">>

\* The key under which a handler reads and writes SESSIONS: its own sid.
StoreKey(s) == s

\* Line 210: "\n".join(f"{m['role']}: {m.get('content', '')}" for m in turns)
RECURSIVE TranscriptLines(_)
TranscriptLines(turns) ==
    IF turns = <<>> THEN <<>>
    ELSE <<(<<Head(turns).role, ": ">> \o Head(turns).content)>>
         \o TranscriptLines(Tail(turns))

ConvText(turns) == join(<<"\n">>, TranscriptLines(turns))

\* Line 215: structured = {} when extract_structured raises.
ExtractFallback == {}

\* EvaluateFallback with a slip: the default verdict is Normal.
EvaluateFallbackNormal == [level |-> "Normal", reason |-> DEFAULT_REASON]

\* Line 220: raw_triage when evaluate_triage raises.
EvaluateFallback == FALLBACK_TRIAGE

\* A shaper run that has not shaped its raw reply yet.
NotShaped == [reply |-> <<>>, end_convo |-> FALSE, short |-> <<>>, done |-> FALSE]

Init ==
    /\ now = 0
    /\ SESSIONS = <<>>
    /\ message_logs = <<>>
    /\ pc = [r \in Reqs |-> "idle"]
    /\ sid = [r \in Reqs |-> NoSid]
    /\ reply = [r \in Reqs |-> <<>>]
    /\ severity_flag = [r \in Reqs |-> FALSE]
    /\ structured = [r \in Reqs |-> {}]
    /\ history = [r \in Reqs |-> <<>>]
    /\ conv_text = [r \in Reqs |-> <<>>]
    /\ failed = [r \in Reqs |-> {}]
    /\ omitted = {}
    /\ out = NoOut
    /\ raw = <<>>
    /\ shaped = NotShaped

\* The clock advances by a second.
Tick ==
    /\ now < MaxClock
    /\ now' = now + 1
    /\ out' = NoOut
    /\ UNCHANGED <<SESSIONS, message_logs, pc, sid, reply, severity_flag, structured,
                   history, conv_text, failed, omitted, raw, shaped>>

\* Accept with a slip: the patient's message is stored under the role of the
\* reply.
AcceptMislabelled(r, session_id, message) ==
    /\ pc[r] = "idle"
    /\ LET s == ResolveSid(session_id, now)
           k == StoreKey(s)
           fresh == k \notin DOMAIN SESSIONS
           old == IF fresh THEN <<>> ELSE SESSIONS[k]
           turn == [role |-> "assistant", content |-> message, req |-> r]
       IN  /\ sid' = [sid EXCEPT ![r] = s]
           /\ SESSIONS' = [x \in DOMAIN SESSIONS \cup {k} |->
                              IF x = k THEN Append(old, turn) ELSE SESSIONS[x]]
           /\ message_logs' =
                  Append(IF fresh THEN <<>> ELSE message_logs,
                         [role |-> "patient", message |-> message, req |-> r])
    /\ omitted' = IF session_id = None THEN omitted \cup {r} ELSE omitted
    /\ pc' = [pc EXCEPT ![r] = "infer"]
    /\ out' = NoOut
    /\ UNCHANGED <<now, reply, severity_flag, structured, history, conv_text,
                   failed, raw, shaped>>

\* Lines 182-195: the request is taken, its session resolved or created, the
\* patient turn stored, and doctor_reply handed to the thread pool.
Accept(r, session_id, message) ==
    /\ pc[r] = "idle"
    /\ LET s == ResolveSid(session_id, now)
           k == StoreKey(s)
           fresh == k \notin DOMAIN SESSIONS
           old == IF fresh THEN <<>> ELSE SESSIONS[k]
           turn == [role |-> "user", content |-> message, req |-> r]
       IN  /\ sid' = [sid EXCEPT ![r] = s]
           /\ SESSIONS' = [x \in DOMAIN SESSIONS \cup {k} |->
                              IF x = k THEN Append(old, turn) ELSE SESSIONS[x]]
           /\ message_logs' =
                  Append(IF fresh THEN <<>> ELSE message_logs,
                         [role |-> "patient", message |-> message, req |-> r])
    /\ omitted' = IF session_id = None THEN omitted \cup {r} ELSE omitted
    /\ pc' = [pc EXCEPT ![r] = "infer"]
    /\ out' = NoOut
    /\ UNCHANGED <<now, reply, severity_flag, structured, history, conv_text,
                   failed, raw, shaped>>

\* Lines 54-59 of doctor_reply, on the pool's thread: the messages are built
\* from the session's list as it is at that moment and sent to the backend.
BuildMessages(r) ==
    /\ pc[r] = "infer"
    /\ history' = [history EXCEPT ![r] = build_messages(SESSIONS[StoreKey(sid[r])])]
    /\ pc' = [pc EXCEPT ![r] = "chat"]
    /\ out' = NoOut
    /\ UNCHANGED <<now, SESSIONS, message_logs, sid, reply, severity_flag, structured,
                   conv_text, failed, omitted, raw, shaped>>

\* Lines 206-213: the reply is stored as the assistant turn, the transcript
\* is built and extract_structured handed to the thread pool.
StoreReply(r, res, failure) ==
    LET k == StoreKey(sid[r])
        turn == [role |-> "assistant", content |-> res.reply, req |-> r]
    IN  /\ reply' = [reply EXCEPT ![r] = res.reply]
        /\ severity_flag' = [severity_flag EXCEPT ![r] = res.end_convo]
        /\ SESSIONS' = [SESSIONS EXCEPT ![k] = Append(@, turn)]
        /\ message_logs' = Append(message_logs, [role |-> "doctor", message |-> res.reply, req |-> r])
        /\ conv_text' = [conv_text EXCEPT ![r] = ConvText(SESSIONS'[k])]
        /\ failed' = [failed EXCEPT ![r] = failure]
        /\ history' = [history EXCEPT ![r] = <<>>]
        /\ pc' = [pc EXCEPT ![r] = "extract"]
        /\ out' = NoOut
        /\ UNCHANGED <<now, sid, structured, omitted, raw, shaped>>

\* Lines 195-199: doctor_reply returns its pair.
DoctorReturn(r, o) ==
    /\ pc[r] = "chat"
    /\ StoreReply(r, doctor_reply(o), InferenceFailure(o))

\* DoctorRaise with a slip: the fallback reply is returned but not stored.
DoctorRaiseUnstored(r) ==
    /\ pc[r] \in {"infer", "chat"}
    /\ reply' = [reply EXCEPT ![r] = CHAT_FALLBACK_REPLY]
    /\ severity_flag' = [severity_flag EXCEPT ![r] = FALSE]
    /\ conv_text' = [conv_text EXCEPT ![r] = ConvText(SESSIONS[StoreKey(sid[r])])]
    /\ failed' = [failed EXCEPT ![r] = {"inference", "pool"}]
    /\ history' = [history EXCEPT ![r] = <<>>]
    /\ pc' = [pc EXCEPT ![r] = "extract"]
    /\ out' = NoOut
    /\ UNCHANGED <<now, SESSIONS, message_logs, sid, structured, omitted, raw, shaped>>

\* Lines 200-203: run_in_threadpool(doctor_reply, ...) raises.
DoctorRaise(r) ==
    /\ pc[r] \in {"infer", "chat"}
    /\ StoreReply(r, [reply |-> CHAT_FALLBACK_REPLY, end_convo |-> FALSE],
                  {"inference", "pool"})

\* Line 213: extract_structured returns a record.
ExtractReturn(r, record) ==
    /\ pc[r] = "extract"
    /\ structured' = [structured EXCEPT ![r] = record]
    /\ conv_text' = [conv_text EXCEPT ![r] = <<>>]
    /\ pc' = [pc EXCEPT ![r] = "evaluate"]
    /\ out' = NoOut
    /\ UNCHANGED <<now, SESSIONS, message_logs, sid, reply, severity_flag, history,
                   failed, omitted, raw, shaped>>

\* Lines 214-215: extract_structured raises.
ExtractRaise(r) ==
    /\ pc[r] = "extract"
    /\ structured' = [structured EXCEPT ![r] = ExtractFallback]
    /\ conv_text' = [conv_text EXCEPT ![r] = <<>>]
    /\ failed' = [failed EXCEPT ![r] = @ \cup {"extraction"}]
    /\ pc' = [pc EXCEPT ![r] = "evaluate"]
    /\ out' = NoOut
    /\ UNCHANGED <<now, SESSIONS, message_logs, sid, reply, severity_flag, history,
                   omitted, raw, shaped>>

\* Lines 222-256: the verdict is verified against the empty rule list, the
\* display built, log_session called, and the response returned.  log_session
\* is called outside any try: when it raises, the handler raises.
Finish(r, raw_triage, fails, logRaises) ==
    LET verified == verify(raw_triage, <<>>)
        triage_info == TriageInfo(verified, severity_flag[r])
        response == [success |-> TRUE,
                     response |-> reply[r],
                     triage |-> triage_info,
                     structured |-> structured[r]]
    IN  /\ out' = IF logRaises
                  THEN [kind |-> "error", req |-> r, sid |-> sid[r],
                        failed |-> fails \cup {"persistence"},
                        raw_triage |-> raw_triage,
                        verified |-> verified, response |-> <<>>]
                  ELSE [kind |-> "response", req |-> r, sid |-> sid[r],
                        failed |-> fails,
                        raw_triage |-> raw_triage,
                        verified |-> verified, response |-> response]
        /\ pc' = [pc EXCEPT ![r] = "done"]
        /\ severity_flag' = [severity_flag EXCEPT ![r] = FALSE]
        /\ structured' = [structured EXCEPT ![r] = {}]
        /\ failed' = [failed EXCEPT ![r] = @ \ {"extraction"}]
        /\ UNCHANGED <<now, SESSIONS, message_logs, sid, reply, history, conv_text,
                       omitted, raw, shaped>>

\* Line 218: evaluate_triage returns its verdict for the record.
EvaluateReturn(r, logRaises) ==
    /\ pc[r] = "evaluate"
    /\ Finish(r, evaluate_triage(structured[r]), failed[r], logRaises)

\* Lines 219-220: evaluate_triage raises.
EvaluateRaise(r, logRaises) ==
    /\ pc[r] = "evaluate"
    /\ Finish(r, EvaluateFallback, failed[r] \cup {"evaluation"}, logRaises)

\* Line 218, with an evaluator that returns a verdict outside its contract.
EvaluateDrift(r, verdict, logRaises) ==
    /\ pc[r] = "evaluate"
    /\ Finish(r, verdict, failed[r] \cup {"drift"}, logRaises)

\* A client that sends a request only after the one before it was answered.
AcceptAlone(r, session_id, message) ==
    /\ \A q \in Reqs : pc[q] \in {"idle", "done"}
    /\ Accept(r, session_id, message)

\* The inputs of the concurrent runs: one patient message, a backend that
\* answers, an extractor that finds a red flag.
PainMessage == <<"I have chest pain">>

GoodOutcome == [kind |-> "content", raw |-> <<"R", "e", "s", "t", ".", " ">> \o END_CONVO,
                memory |-> FALSE]

RedFlagRecord == {<<"red_flags", "chest pain">>}

\* Concurrent runs: any number of handlers in flight at once, for a named
\* session or for none, each stage answering.
Next ==
    \/ Tick
    \/ \E r \in Reqs, s \in ClientSids \cup {None} : Accept(r, s, PainMessage)
    \/ \E r \in Reqs : BuildMessages(r)
    \/ \E r \in Reqs : DoctorReturn(r, GoodOutcome)
    \/ \E r \in Reqs : ExtractReturn(r, RedFlagRecord)
    \/ \E r \in Reqs, l \in BOOLEAN : EvaluateReturn(r, l)

Spec == Init /\ [][Next]_vars

\* Runs of one handler at a time on one session, over every outcome of every
\* stage.
NextFaults ==
    \/ \E r \in Reqs, s \in ClientSids, m \in Messages : AcceptAlone(r, s, m)
    \/ \E r \in Reqs : BuildMessages(r)
    \/ \E r \in Reqs, o \in BackendOutcomes : DoctorReturn(r, o)
    \/ \E r \in Reqs : DoctorRaise(r)
    \/ \E r \in Reqs, record \in Records : ExtractReturn(r, record)
    \/ \E r \in Reqs : ExtractRaise(r)
    \/ \E r \in Reqs, l \in BOOLEAN : EvaluateReturn(r, l)
    \/ \E r \in Reqs, l \in BOOLEAN : EvaluateRaise(r, l)

SpecFaults == Init /\ [][NextFaults]_vars

\* The same runs with an evaluator that may break its contract.
NextDrift ==
    \/ NextFaults
    \/ \E r \in Reqs, v \in DriftVerdicts, l \in BOOLEAN : EvaluateDrift(r, v, l)

SpecDrift == Init /\ [][NextDrift]_vars

\* Concurrent runs on two named sessions, each stage answering or raising.
TurnSids == {<<"A">>, <<"B">>}

\* AcceptInOrder with a slip: doctor_reply and extract_structured run on the
\* request-accepting path, so no request is taken while one of them runs.
AcceptWhenQuiet(r, session_id, message) ==
    /\ \A q \in Reqs : pc[q] \notin {"infer", "chat", "extract"}
    /\ \A q \in 1..(r - 1) : pc[q] # "idle"
    /\ Accept(r, session_id, message)

\* The requests numbered in the order they arrive.
AcceptInOrder(r, session_id, message) ==
    /\ \A q \in 1..(r - 1) : pc[q] # "idle"
    /\ Accept(r, session_id, message)

NextTurns ==
    \/ \E r \in Reqs, s \in TurnSids : AcceptInOrder(r, s, PainMessage)
    \/ \E r \in Reqs : BuildMessages(r)
    \/ \E r \in Reqs : DoctorReturn(r, GoodOutcome)
    \/ \E r \in Reqs : DoctorRaise(r)
    \/ \E r \in Reqs : ExtractReturn(r, RedFlagRecord)
    \/ \E r \in Reqs : ExtractRaise(r)
    \/ \E r \in Reqs, l \in BOOLEAN : EvaluateReturn(r, l)
    \/ \E r \in Reqs, l \in BOOLEAN : EvaluateRaise(r, l)

SpecTurns == Init /\ [][NextTurns]_vars

\* ------------------------------------------------------ shaper runs
\* The pieces raw replies are assembled from: a sentence with its space, a
\* sentence ended by a line break, the marker, its two halves, a space.
Pieces ==
    { <<"a", ".", " ">>,
      <<"b", "?", "\n">>,
      END_CONVO,
      <<"<", "E", "N", "D", "_">>,
      <<"C", "O", "N", "V", "O", ">">>,
      <<" ">> }

RECURSIVE Flatten(_)
Flatten(ps) == IF ps = <<>> THEN <<>> ELSE Head(ps) \o Flatten(Tail(ps))

RawInputs == { Flatten(ps) : ps \in UNION { [1..n -> Pieces] : n \in 0..MaxPieces } }

InitShape ==
    /\ now = 0
    /\ SESSIONS = <<>>
    /\ message_logs = <<>>
    /\ pc = [r \in Reqs |-> "idle"]
    /\ sid = [r \in Reqs |-> NoSid]
    /\ reply = [r \in Reqs |-> <<>>]
    /\ severity_flag = [r \in Reqs |-> FALSE]
    /\ structured = [r \in Reqs |-> {}]
    /\ history = [r \in Reqs |-> <<>>]
    /\ conv_text = [r \in Reqs |-> <<>>]
    /\ failed = [r \in Reqs |-> {}]
    /\ omitted = {}
    /\ out = NoOut
    /\ raw \in RawInputs
    /\ shaped = NotShaped

\* doctor_reply, lines 82-88, applied to raw.
Shape ==
    /\ ~shaped.done
    /\ LET res == ShapeReply(raw)
       IN  shaped' = [reply |-> res.reply, end_convo |-> res.end_convo,
                      short |-> _shorten_reply(raw), done |-> TRUE]
    /\ UNCHANGED <<raw, now, SESSIONS, message_logs, pc, sid, reply, severity_flag,
                   structured, history, conv_text, failed, omitted, out>>

NextShape == Shape

SpecShape == InitShape /\ [][NextShape]_vars

\* ------------------------------------------------------------ claims
ValidTriage(t) ==
    /\ t.level \in Levels
    /\ t.reason # ""
    /\ t.color # ""
    /\ t.status # ""

\* C1: every response carries a triage whose level is one of the four levels
\* and whose reason, color and status are non-empty, whatever the evaluator
\* returned; a level outside the four is replaced by Routine.
C1_ValidTriageAlways ==
    out.kind = "response" =>
        /\ ValidTriage(out.response.triage)
        /\ (Get(out.verified, "level", "Routine") \notin Levels
                => out.response.triage.level = "Routine")

\* The turns of request r in a list of turns, as the indices they stand at.
TurnsOf(turns, r) == { i \in 1..Len(turns) : turns[i].req = r }

\* No request of session k is between its Patient turn and its Doctor turn.
Answered(k) == \A r \in Reqs : sid[r] = k => pc[r] \notin {"infer", "chat"}

\* C2: once the requests of a session have their replies stored, its turn
\* list is what running them one after the other gives: every Patient turn
\* is followed at once by the Doctor turn of the same request, and no turn
\* of another request stands between the two.
C2_TurnsSerialized ==
    \A k \in DOMAIN SESSIONS :
        Answered(k) =>
            LET turns == SESSIONS[k]
            IN  \A i \in 1..Len(turns) :
                    /\ turns[i].role = "user" =>
                           /\ i < Len(turns)
                           /\ turns[i + 1].role = "assistant"
                           /\ turns[i + 1].req = turns[i].req
                    /\ turns[i].role = "assistant" =>
                           /\ i > 1
                           /\ turns[i - 1].role = "user"
                           /\ turns[i - 1].req = turns[i].req

IsPrefixImage(x, turns, F(_)) ==
    \E n \in 0..Len(turns) : x = F(SubSeq(turns, 1, n))

\* C3: the turn list of a session holds only turns of requests made for that
\* session, and the messages sent to the backend and the transcript sent to
\* the extractor for a request are built from turns of its own session only.
C3_SessionIsolation ==
    /\ \A k \in DOMAIN SESSIONS :
           \A i \in 1..Len(SESSIONS[k]) : sid[SESSIONS[k][i].req] = k
    /\ \A r \in Reqs :
           /\ pc[r] = "chat" =>
                  /\ sid[r] \in DOMAIN SESSIONS
                  /\ IsPrefixImage(history[r], SESSIONS[sid[r]], build_messages)
           /\ pc[r] = "extract" =>
                  /\ sid[r] \in DOMAIN SESSIONS
                  /\ IsPrefixImage(conv_text[r], SESSIONS[sid[r]], ConvText)

\* C3's case: two requests of two sessions in flight together, one with its
\* messages at the backend, the other with its transcript at the extractor.
C3_Witness ==
    \E r, q \in Reqs :
        /\ sid[r] # sid[q]
        /\ pc[r] = "chat"
        /\ pc[q] = "extract"
        /\ Len(history[r]) = 2
        /\ conv_text[q] # <<>>

\* C4: the Patient turn of a request that gave no session id is the first
\* turn of the session it runs on.
C4_OmittedIdStartsSession ==
    \A r \in omitted :
        \A k \in DOMAIN SESSIONS :
            \A i \in TurnsOf(SESSIONS[k], r) :
                SESSIONS[k][i].role = "user" => i = 1

\* C5: when log_session raises, the handler still returns its response, and
\* the two turns of the request stay in the session.
C5_PersistenceFailureHarmless ==
    "persistence" \in out.failed =>
        /\ out.kind = "response"
        /\ Cardinality(TurnsOf(SESSIONS[out.sid], out.req)) = 2

\* The replies substituted for a failed inference call.
FallbackReplies ==
    {EMPTY_REPLY, MEMORY_REPLY, MODEL_ERROR_REPLY, TROUBLE_REPLY, CHAT_FALLBACK_REPLY}

\* The request's inference call failed.
InferenceFailedFor(r) == "inference" \in failed[r]

\* How the inference call of request r failed.
FailureKind(r) == failed[r] \ {"extraction"}

\* The reply of request r stands in its session as a Doctor turn of r.
DoctorTurnStored(r) ==
    /\ sid[r] \in DOMAIN SESSIONS
    /\ \E i \in TurnsOf(SESSIONS[sid[r]], r) :
           /\ SESSIONS[sid[r]][i].role = "assistant"
           /\ SESSIONS[sid[r]][i].content = reply[r]

\* What holds of a failed inference call whatever its reply is.
FailedInferenceGoesOn(r) ==
    /\ pc[r] \in {"extract", "evaluate", "done"}
    /\ reply[r] # <<>>
    /\ pc[r] \in {"extract", "evaluate"} => severity_flag[r] = FALSE
    /\ DoctorTurnStored(r)

FailedInferenceResponse ==
    (out.kind = "response" /\ "inference" \in out.failed) =>
        /\ out.response.response = reply[out.req]
        /\ out.response.triage.severity_flag = FALSE

C7_ExtractorFailureFallback ==
    "extraction" \in out.failed =>
        /\ out.kind = "response"
        /\ out.response.structured = {}
        /\ ValidTriage(out.response.triage)
        /\ out.response.triage.level = "Routine"

\* C8: when the evaluator fails, the verdict of the turn is Routine with the
\* reason "No red flags found; symptoms appear non-urgent.", and the
\* response carries that level and reason with the color and status of
\* Routine.
C8_EvaluatorFailureVerdict ==
    "evaluation" \in out.failed =>
        /\ out.verified =
               [level |-> "Routine",
                reason |-> "No red flags found; symptoms appear non-urgent."]
        /\ out.kind = "response" =>
               /\ out.response.triage.level = "Routine"
               /\ out.response.triage.reason =
                      "No red flags found; symptoms appear non-urgent."
               /\ out.response.triage.color = triage_display["Routine"].color
               /\ out.response.triage.status = triage_display["Routine"].status

\* C8's case: the evaluator failed on a record that holds a red flag, and
\* the response was given.
C8_Witness ==
    /\ out.kind = "response"
    /\ "evaluation" \in out.failed
    /\ out.response.structured = {<<"red_flags", "chest pain">>}

\* C9: the display of a level of the four is that level's own non-empty
\* color and status, and the display of any other level is the color and the
\* status of Routine.
C9_DisplayMappingTotal ==
    out.kind = "response" =>
        LET t == out.response.triage
        IN  /\ t.level \in Levels =>
                   /\ t.color = triage_display[t.level].color
                   /\ t.status = triage_display[t.level].status
                   /\ t.color # ""
                   /\ t.status # ""
            /\ t.level \notin Levels =>
                   /\ t.color = triage_display["Routine"].color
                   /\ t.status = triage_display["Routine"].status

NoOuterWhitespace(s) ==
    s # <<>> => (Head(s) \notin Whitespace /\ s[Len(s)] \notin Whitespace)

\* C10: completion is reported exactly when the marker occurs in the first 4
\* sentences of the raw reply, and the cleaned text holds no marker and no
\* leading or trailing whitespace.
C10_MarkerDetectedAndStripped ==
    shaped.done =>
        /\ shaped.end_convo <=> Contains(shaped.short, END_CONVO)
        /\ ~Contains(shaped.reply, END_CONVO)
        /\ NoOuterWhitespace(shaped.reply)

\* The parts of C10 apart from the marker being absent from the cleaned text.
C10_DetectionAndTrim ==
    shaped.done =>
        /\ shaped.end_convo <=> Contains(shaped.short, END_CONVO)
        /\ NoOuterWhitespace(shaped.reply)

\* The parts of C7 that a response carries when there is one.
C7_ResponseParts ==
    ("extraction" \in out.failed /\ out.kind = "response") =>
        /\ out.response.structured = {}
        /\ ValidTriage(out.response.triage)
        /\ out.response.triage.level = "Routine"

\* First index >= i of s that holds no whitespace (Len(s) + 1 when there is none).
RECURSIVE SkipWhitespace(_, _)
SkipWhitespace(s, i) ==
    IF i <= Len(s) /\ s[i] \in Whitespace THEN SkipWhitespace(s, i + 1) ELSE i

\* The sentences of a text: a sentence ends with a terminal character that
\* whitespace follows; what stands after the last such end is the last one.
RECURSIVE SentencesFrom(_, _, _)
SentencesFrom(s, i, start) ==
    IF i > Len(s)
    THEN IF start > Len(s) THEN <<>> ELSE <<SubSeq(s, start, Len(s))>>
    ELSE IF s[i] \in Whitespace /\ i > 1 /\ s[i - 1] \in Terminal
         THEN LET j == SkipWhitespace(s, i)
              IN  <<SubSeq(s, start, i - 1)>> \o SentencesFrom(s, j, j)
         ELSE SentencesFrom(s, i + 1, start)

Sentences(s) == SentencesFrom(strip(s), 1, 1)

FirstSentences(s) ==
    join(<<" ">>, SubSeq(Sentences(s), 1, Min(Len(Sentences(s)), max_sentences)))

\* C11: the shortened text of a raw reply of n sentences is its first
\* min(n, 4) sentences in their order joined by single spaces, and the
\* shortened text of the empty reply is empty.
C11_FirstFourSentences ==
    shaped.done =>
        /\ shaped.short = FirstSentences(raw)
        /\ raw = <<>> => shaped.short = <<>>

\* C12: shaping the cleaned text of a shaped reply gives that cleaned text
\* again, with completion false.
C12_ShapingIdempotent ==
    shaped.done =>
        ShapeReply(shaped.reply) = [reply |-> shaped.reply, end_convo |-> FALSE]

\* The roles of the turns of request r in a list of turns, in their order.
RECURSIVE RolesOf(_, _)
RolesOf(turns, r) ==
    IF turns = <<>> THEN <<>>
    ELSE (IF Head(turns).req = r THEN <<Head(turns).role>> ELSE <<>>)
         \o RolesOf(Tail(turns), r)

\* What request r has appended so far: nothing outside its own session; in
\* its session nothing before it is accepted, its Patient turn while the
\* inference is pending, its Patient turn and then its Doctor turn after.
AppendsOf(r) ==
    /\ \A k \in DOMAIN SESSIONS : k # sid[r] => RolesOf(SESSIONS[k], r) = <<>>
    /\ pc[r] # "idle" =>
           /\ sid[r] \in DOMAIN SESSIONS
           /\ RolesOf(SESSIONS[sid[r]], r) =
                  IF pc[r] \in {"infer", "chat"}
                  THEN <<"user">>
                  ELSE <<"user", "assistant">>

\* A step keeps every session, and every turn list as a prefix of what it
\* becomes.
TurnsKept ==
    \A k \in DOMAIN SESSIONS :
        /\ k \in DOMAIN SESSIONS'
        /\ Len(SESSIONS'[k]) >= Len(SESSIONS[k])
        /\ SubSeq(SESSIONS'[k], 1, Len(SESSIONS[k])) = SESSIONS[k]

\* A step changes the turn list of at most the session of the request that
\* takes the step.
OthersUntouched ==
    \A k \in DOMAIN SESSIONS' :
        (k \notin DOMAIN SESSIONS \/ SESSIONS'[k] # SESSIONS[k]) =>
            \E r \in Reqs : pc'[r] # pc[r] /\ sid'[r] = k

\* C13: a turn appends one Patient turn and then one Doctor turn to the
\* session its request names, whether its stages answer or raise; no step
\* changes or removes a turn that is in a list, and no step changes the list
\* of a session other than the one of the request that takes it.
C13_TwoAppendsPerTurn ==
    /\ [](\A r \in Reqs : AppendsOf(r))
    /\ [][TurnsKept /\ OthersUntouched]_vars

\* C13's case: two turns completed on two sessions, the inference of one
\* having raised, the extraction of the other having raised.
C13_Witness ==
    \E r, q \in Reqs :
        /\ sid[r] # sid[q]
        /\ pc[r] = "done"
        /\ pc[q] = "done"
        /\ "pool" \in failed[r]
        /\ out.req = q
        /\ "extraction" \in out.failed
        /\ Len(SESSIONS[sid[r]]) = 2
        /\ Len(SESSIONS[sid[q]]) = 2

\* C14: the verified verdict is the evaluator's verdict, and when the
\* evaluator's level is one of the four the response carries that level, its
\* color and status, and the evaluator's reason, so that the level shown is
\* never less urgent than the evaluator's.
C14_EmptyRulesetPassthrough ==
    out.kind # "none" =>
        /\ out.verified = out.raw_triage
        /\ (/\ out.kind = "response"
            /\ "level" \in DOMAIN out.raw_triage
            /\ out.raw_triage.level \in Levels) =>
               LET t == out.response.triage
                   L == out.raw_triage.level
               IN  /\ t.level = L
                   /\ t.color = triage_display[L].color
                   /\ t.status = triage_display[L].status
                   /\ "reason" \in DOMAIN out.raw_triage => t.reason = out.raw_triage.reason
                   /\ Urgency(t.level) >= Urgency(L)

\* C14's case: the evaluator returned Emergency for a record with a red flag
\* and the response was given.
C14_Witness ==
    /\ out.kind = "response"
    /\ out.failed = {}
    /\ out.raw_triage = evaluate_triage({<<"red_flags", "chest pain">>})
    /\ out.raw_triage.level = "Emergency"
    /\ out.response.triage.level = "Emergency"

\* The inference call or the extraction call of request r is pending.
Pending(r) == pc[r] \in {"infer", "chat", "extract"}

\* Request q is the next to arrive.
NextArrival(q) == pc[q] = "idle" /\ \A p \in 1..(q - 1) : pc[p] # "idle"

\* Whatever q has to do next for a session other than r's, it can do now.
CanGoOn(q, r) ==
    /\ NextArrival(q) =>
           \A s \in TurnSids \ {sid[r]} : ENABLED AcceptInOrder(q, s, PainMessage)
    /\ (pc[q] # "idle" /\ sid[q] # sid[r]) =>
           /\ pc[q] = "infer" => ENABLED BuildMessages(q)
           /\ pc[q] = "chat" => ENABLED (DoctorRaise(q) \/ DoctorReturn(q, GoodOutcome))
           /\ pc[q] = "extract" => ENABLED ExtractReturn(q, RedFlagRecord)
           /\ pc[q] = "evaluate" => ENABLED EvaluateReturn(q, FALSE)

\* A step of one request leaves every other request where it stands.
StepsApart ==
    \A q, r \in Reqs : (q # r /\ pc'[q] # pc[q]) => pc'[r] = pc[r]

\* C15: while the inference call or the extraction call of a request is
\* pending, a request for another session can be accepted and can take each
\* of its steps up to its response, none of which moves the pending call.
C15_NotBlockedByOtherSession ==
    /\ [](\A r, q \in Reqs : (q # r /\ Pending(r)) => CanGoOn(q, r))
    /\ [][StepsApart]_vars

\* C15's case: a request for another session arrived after a request whose
\* inference call is still pending, and has been given its response.
C15_Witness ==
    \E r, q \in Reqs :
        /\ r < q
        /\ sid[r] # sid[q]
        /\ pc[r] = "chat"
        /\ pc[q] = "done"
        /\ out.kind = "response"
        /\ out.req = q

\* The number of turns of a role among the first n turns of a list.
CountRole(turns, n, role) == Cardinality({ i \in 1..n : turns[i].role = role })

\* C16: every prefix of the turn list of every session holds at least as many
\* Patient turns as Doctor turns, and a turn list that is not empty starts
\* with a Patient turn.
C16_PatientBeforeDoctor ==
    \A k \in DOMAIN SESSIONS :
        LET turns == SESSIONS[k]
        IN  /\ \A n \in 0..Len(turns) :
                   CountRole(turns, n, "user") >= CountRole(turns, n, "assistant")
            /\ turns # <<>> => turns[1].role = "user"

\* C16's case: two requests of one session in flight together, the later one
\* answered first, so that its Doctor turn stands apart from its Patient turn
\* and before the Doctor turn of the earlier one.
C16_Witness ==
    \E k \in DOMAIN SESSIONS :
        LET turns == SESSIONS[k]
        IN  /\ Len(turns) = 4
            /\ turns[1].role = "user" /\ turns[1].req = 1
            /\ turns[2].role = "user" /\ turns[2].req = 2
            /\ turns[3].role = "assistant" /\ turns[3].req = 2
            /\ turns[4].role = "assistant" /\ turns[4].req = 1

\* Every turn of a list as a message: Patient as user, Doctor as assistant,
\* with its text.
AllTurnsAsMessages(turns) ==
    [i \in 1..Len(turns) |-> [role |-> turns[i].role, content |-> turns[i].content]]

\* C17: the messages sent to the backend for a request are the system
\* instruction followed by every turn of the session in its order, each with
\* its role and its text, a turn with empty text included.
C17_FullHistorySent ==
    \A r \in Reqs :
        pc[r] = "chat" =>
            history[r] =
                <<[role |-> "system", content |-> SYSTEM_PROMPT]>>
                \o AllTurnsAsMessages(SESSIONS[sid[r]])

\* The lowercase role name of the speaker of a turn.
Speaker(turn) == IF turn.role = "user" THEN "patient" ELSE "doctor"

\* One line 'speaker: text' per turn.
SpeakerLines(turns) ==
    [i \in 1..Len(turns) |-> <<Speaker(turns[i]), ": ">> \o turns[i].content]

\* C18: the transcript given to the extractor for a request holds one line
\* 'speaker: text' for every turn of the session in order, the Doctor reply
\* of that request included, the speaker being 'patient' or 'doctor'.
C18_TranscriptLabels ==
    \A r \in Reqs :
        pc[r] = "extract" =>
            /\ DoctorTurnStored(r)
            /\ conv_text[r] = join(<<"\n">>, SpeakerLines(SESSIONS[sid[r]]))

\* The place in the turn list of its session of the turn a log entry records.
TurnOfEntry(e) ==
    LET turns == SESSIONS[sid[e.req]]
        role == IF e.role = "patient" THEN "user" ELSE "assistant"
    IN  CHOOSE i \in 1..Len(turns) : turns[i].req = e.req /\ turns[i].role = role

\* C19: the entries of message_logs are turns of one session, in the order
\* they have in that session.
C19_LogOfOneSession ==
    \A i, j \in 1..Len(message_logs) :
        /\ sid[message_logs[i].req] = sid[message_logs[j].req]
        /\ i < j => TurnOfEntry(message_logs[i]) < TurnOfEntry(message_logs[j])

====
